---- MODULE Spec2Model ----
(***************************************************************************)
(* Schema-driven form validation (createValidationSchema /                 *)
(* createZodSchema), the heuristic advisory evaluation (useAIValidation)   *)
(* and the form session of DynamicFormRenderer: debounced whole-form       *)
(* advisory evaluation and the submit handler.                             *)
(***************************************************************************)
EXTENDS Integers, Sequences, FiniteSets, TLC

(***************************************************************************)
(* Bounds of the model.                                                    *)
(***************************************************************************)
\* longest string of the exhaustively enumerated input strings
MaxLen == 2
\* largest minLength / maxLength constraint enumerated
MaxConstraint == 2
\* numeric bounds min / max are enumerated over -1 .. MaxBound
MaxBound == 2

(***************************************************************************)
(* JavaScript values.  A value is a record with a type tag t, a string     *)
(* payload s (a sequence of one-character strings) and a numeric payload n *)
(* (the number, or 0/1 for a boolean).                                     *)
(***************************************************************************)
Undef == [t |-> "undefined", s |-> <<>>, n |-> 0]
NaN == [t |-> "nan", s |-> <<>>, n |-> 0]
Str(s) == [t |-> "string", s |-> s, n |-> 0]
Num(n) == [t |-> "number", s |-> <<>>, n |-> n]
Bool(b) == [t |-> "boolean", s |-> <<>>, n |-> IF b THEN 1 ELSE 0]

\* JavaScript truthiness, as used by `value && ...`
Truthy(v) ==
  CASE v.t = "undefined" -> FALSE
    [] v.t = "nan" -> FALSE
    [] v.t = "string" -> v.s # <<>>
    [] v.t = "number" -> v.n # 0
    [] v.t = "boolean" -> v.n = 1
    [] OTHER -> TRUE

(***************************************************************************)
(* Characters and strings.                                                 *)
(***************************************************************************)
Letters == {"a", "b", "c", "h", "i", "j", "n", "o", "x", "J"}
DigitSeq == <<"0", "1", "2", "3", "4", "5", "6", "7", "8", "9">>
Digits == {DigitSeq[i] : i \in 1..10}
Whitespace == {" "}

DigitVal(c) == (CHOOSE i \in 1..10 : DigitSeq[i] = c) - 1

AllIn(s, set) == \A i \in 1..Len(s) : s[i] \in set

RECURSIVE TrimStart(_)
TrimStart(s) == IF s # <<>> /\ Head(s) \in Whitespace THEN TrimStart(Tail(s)) ELSE s

RECURSIVE TrimEnd(_)
TrimEnd(s) ==
  IF s # <<>> /\ s[Len(s)] \in Whitespace THEN TrimEnd(SubSeq(s, 1, Len(s) - 1)) ELSE s

Trim(s) == TrimEnd(TrimStart(s))

RECURSIVE ParseDigits(_)
ParseDigits(s) ==
  IF s = <<>> THEN 0
  ELSE ParseDigits(SubSeq(s, 1, Len(s) - 1)) * 10 + DigitVal(s[Len(s)])

\* Number(string): surrounding whitespace is ignored, the empty string is 0,
\* an optionally signed run of digits is that integer, anything else is NaN.
\* (Fractions, exponents and radix prefixes are outside the input alphabet.)
StringToNumber(s) ==
  LET t == Trim(s) IN
  IF t = <<>> THEN Num(0)
  ELSE IF AllIn(t, Digits) THEN Num(ParseDigits(t))
  ELSE IF Len(t) > 1 /\ t[1] = "-" /\ AllIn(Tail(t), Digits) THEN Num(0 - ParseDigits(Tail(t)))
  ELSE IF Len(t) > 1 /\ t[1] = "+" /\ AllIn(Tail(t), Digits) THEN Num(ParseDigits(Tail(t)))
  ELSE NaN

\* Number(value), the coercion of z.coerce.number()
ToNumber(v) ==
  CASE v.t = "string" -> StringToNumber(v.s)
    [] v.t = "number" -> v
    [] v.t = "boolean" -> Num(v.n)
    [] OTHER -> NaN

Includes(s, c) == \E i \in 1..Len(s) : s[i] = c

\* The address grammar of z.string().email(), case-insensitive: the value does
\* not start with a dot and has no two dots in a row; a local part of
\* letters, digits and _ ' + - . whose last character is not a dot or quote;
\* an at sign; one or more dot-terminated labels, each starting with a letter
\* or digit; a final label of at least two letters.
AlNum == Letters \cup Digits
LocalChars == AlNum \cup {"_", "'", "+", "-", "."}
LocalLast == AlNum \cup {"_", "+", "-"}

EmailLocal(l) ==
  /\ l # <<>>
  /\ AllIn(l, LocalChars)
  /\ l[Len(l)] \in LocalLast

\* ([A-Z0-9][A-Z0-9\-]*\.)+ : d ends with a dot and splits into non-empty
\* labels that start with a letter or digit
EmailLabels(d) ==
  /\ d # <<>>
  /\ d[Len(d)] = "."
  /\ AllIn(d, AlNum \cup {"-", "."})
  /\ d[1] \in AlNum
  /\ \A i \in 1..(Len(d) - 1) : d[i] = "." => d[i + 1] \in AlNum

EmailDomain(d) ==
  \E k \in 1..Len(d) :
    /\ Len(d) - k >= 2
    /\ AllIn(SubSeq(d, k + 1, Len(d)), Letters)
    /\ EmailLabels(SubSeq(d, 1, k))

IsEmail(s) ==
  /\ s # <<>>
  /\ s[1] # "."
  /\ \A i \in 1..(Len(s) - 1) : ~(s[i] = "." /\ s[i + 1] = ".")
  /\ \E i \in 1..Len(s) :
       /\ s[i] = "@"
       /\ EmailLocal(SubSeq(s, 1, i - 1))
       /\ EmailDomain(SubSeq(s, i + 1, Len(s)))

(***************************************************************************)
(* Patterns of field.validation.pattern, tested with                       *)
(* new RegExp(pattern).test(value).                                        *)
(***************************************************************************)
PatLetters == "^[a-zA-Z]+$"
PatDigit == "[0-9]"
Patterns == {PatLetters, PatDigit}

RegExpTest(pattern, s) ==
  CASE pattern = PatLetters -> s # <<>> /\ AllIn(s, Letters)
    [] pattern = PatDigit -> \E i \in 1..Len(s) : s[i] \in Digits
    [] OTHER -> FALSE

\* variant of the flags: a global expression
RegExpFlagsGlobal == "g"

\* new RegExp(pattern) has no flags
RegExpFlags == ""

\* the end of the first match of the pattern in s that starts at offset
\* `from` or later; 0 - 1 when there is none
MatchEnd(pattern, s, from) ==
  CASE pattern = PatLetters ->
         IF from = 0 /\ s # <<>> /\ AllIn(s, Letters) THEN Len(s) ELSE 0 - 1
    [] pattern = PatDigit ->
         IF \E i \in (from + 1)..Len(s) : s[i] \in Digits
         THEN CHOOSE i \in (from + 1)..Len(s) :
                s[i] \in Digits /\ \A j \in (from + 1)..(i - 1) : s[j] \notin Digits
         ELSE 0 - 1
    [] OTHER -> 0 - 1

\* regex.test(s) of a RegExp object with the given flags and lastIndex: the
\* result, and the lastIndex the object has afterwards.  Without the global
\* flag lastIndex is neither read nor written; with it the search starts at
\* lastIndex, which becomes the end of the match, or 0 when there is none.
RegExpExec(flags, lastIndex, pattern, s) ==
  IF flags = "g"
  THEN LET end == IF lastIndex > Len(s) THEN 0 - 1 ELSE MatchEnd(pattern, s, lastIndex)
       IN IF end >= 0 THEN [matched |-> TRUE, lastIndex |-> end]
          ELSE [matched |-> FALSE, lastIndex |-> 0]
  ELSE [matched |-> RegExpTest(pattern, s), lastIndex |-> lastIndex]

(***************************************************************************)
(* Field definitions (FormField).  An optional property is a set: empty    *)
(* when the property is undefined, a singleton otherwise.                  *)
(***************************************************************************)
NoValidation == [minLength |-> {}, maxLength |-> {}, pattern |-> {}, min |-> {}, max |-> {}]

Field(id, type, required, validation, options) ==
  [id |-> id, type |-> type, required |-> required, validation |-> validation,
   options |-> options]

\* `field.validation?.p !== undefined`
Defined(p) == p # {}
\* `if (field.validation?.p)`: defined and not 0
TruthyNum(p) == \E n \in p : n # 0
ValueOf(p) == CHOOSE n \in p : TRUE

(***************************************************************************)
(* zod validators.  A validator has a base type, the ordered list of its   *)
(* checks, whether it coerces its input, whether it is wrapped in          *)
(* .optional(), and the message of required_error ("" when not given).  A  *)
(* regex check holds its RegExp object, whose lastIndex is mutable state.  *)
(***************************************************************************)
ZCheck(kind, n, pat, msg) ==
  [kind |-> kind, n |-> n, pat |-> pat, msg |-> msg, lastIndex |-> 0]

ZodType(base, coerce, requiredError) ==
  [base |-> base, coerce |-> coerce, checks |-> <<>>, optional |-> FALSE,
   requiredError |-> requiredError]

AddCheck(validator, check) == [validator EXCEPT !.checks = Append(@, check)]
Optional(validator) == [validator EXCEPT !.optional = TRUE]

\* a check of ZodString / ZodNumber fails on the (already typed) input
CheckFails(check, v) ==
  CASE check.kind = "min" -> IF v.t = "string" THEN Len(v.s) < check.n ELSE v.n < check.n
    [] check.kind = "max" -> IF v.t = "string" THEN Len(v.s) > check.n ELSE v.n > check.n
    [] check.kind = "email" -> ~IsEmail(v.s)
    [] check.kind = "regex" -> ~RegExpExec(RegExpFlags, check.lastIndex, check.pat, v.s).matched
    [] OTHER -> FALSE

\* the check after it ran on the input: the RegExp object of a regex check
\* keeps the lastIndex its test left
CheckAfter(check, v) ==
  IF check.kind = "regex"
  THEN [check EXCEPT !.lastIndex = RegExpExec(RegExpFlags, @, check.pat, v.s).lastIndex]
  ELSE check

\* every check runs, in the order it was added; each failure adds an issue
CheckIssues(checks, v) ==
  LET failing == SelectSeq(checks, LAMBDA c : CheckFails(c, v))
  IN [i \in 1..Len(failing) |-> failing[i].msg]

\* the invalid_type message of zod's default error map
InvalidTypeMessage(validator, input) ==
  IF input.t = "undefined"
  THEN (IF validator.requiredError # "" THEN validator.requiredError ELSE "zod:Required")
  ELSE "zod:invalid_type"

\* ZodType.safeParse for one value: the issues in order, and the output
ZodParse(validator, value) ==
  LET input == IF validator.coerce /\ validator.base = "number" THEN ToNumber(value) ELSE value
  IN
  IF validator.optional /\ value.t = "undefined" THEN [issues |-> <<>>, output |-> value]
  ELSE CASE validator.base = "string" ->
              IF input.t # "string"
              THEN [issues |-> <<InvalidTypeMessage(validator, input)>>, output |-> input]
              ELSE [issues |-> CheckIssues(validator.checks, input), output |-> input]
         [] validator.base = "number" ->
              IF input.t # "number"
              THEN [issues |-> <<InvalidTypeMessage(validator, input)>>, output |-> input]
              ELSE [issues |-> CheckIssues(validator.checks, input), output |-> input]
         [] validator.base = "boolean" ->
              IF input.t # "boolean"
              THEN [issues |-> <<InvalidTypeMessage(validator, input)>>, output |-> input]
              ELSE [issues |-> <<>>, output |-> input]
         [] validator.base = "date" ->
              IF input.t # "date"
              THEN [issues |-> <<InvalidTypeMessage(validator, input)>>, output |-> input]
              ELSE IF input.n = 0 THEN [issues |-> <<"zod:invalid_date">>, output |-> input]
              ELSE [issues |-> <<>>, output |-> input]
         [] OTHER -> [issues |-> <<>>, output |-> input]

\* the validator object after ZodParse ran on the value: the checks of a
\* string validator ran when the input is a string
ZodAfterParse(validator, value) ==
  IF validator.optional /\ value.t = "undefined" THEN validator
  ELSE IF validator.base = "string" /\ value.t = "string"
  THEN [validator EXCEPT !.checks = [i \in 1..Len(@) |-> CheckAfter(@[i], value)]]
  ELSE validator

(***************************************************************************)
(* createValidationSchema (DynamicField.tsx, and the identical copy of the *)
(* renderer without advisory evaluation): the validator of one field.      *)
(***************************************************************************)
\* variant of case 'number': the max bound is not applied
NumberValidatorMinOnly(val) ==
  LET v0 == ZodType("number", TRUE, "")
  IN IF Defined(val.min)
     THEN AddCheck(v0, ZCheck("min", ValueOf(val.min), "", "zod:too_small"))
     ELSE v0

\* case 'number'
NumberValidator(val) ==
  LET v0 == ZodType("number", TRUE, "")
      v1 == IF Defined(val.min)
            THEN AddCheck(v0, ZCheck("min", ValueOf(val.min), "", "zod:too_small"))
            ELSE v0
  IN IF Defined(val.max)
     THEN AddCheck(v1, ZCheck("max", ValueOf(val.max), "", "zod:too_big"))
     ELSE v1

\* the switch on field.type
TypeValidator(field) ==
  LET val == field.validation IN
  CASE field.type = "email" ->
         AddCheck(ZodType("string", FALSE, ""), ZCheck("email", 0, "", "email"))
    [] field.type = "number" -> NumberValidator(val)
    [] field.type = "date" -> ZodType("date", FALSE, "required")
    [] field.type = "checkbox" -> Optional(ZodType("boolean", FALSE, ""))
    [] OTHER ->
         LET v0 == ZodType("string", FALSE, "")
             v1 == IF TruthyNum(val.minLength)
                   THEN AddCheck(v0, ZCheck("min", ValueOf(val.minLength), "", "minLength"))
                   ELSE v0
             v2 == IF TruthyNum(val.maxLength)
                   THEN AddCheck(v1, ZCheck("max", ValueOf(val.maxLength), "", "maxLength"))
                   ELSE v1
         IN IF val.pattern # {}
            THEN AddCheck(v2, ZCheck("regex", 0, ValueOf(val.pattern), "pattern"))
            ELSE v2

\* the required / optional handling that follows the switch
RequiredHandling(field, validator) ==
  IF field.required /\ field.type # "checkbox"
  THEN (IF field.type = "date" THEN validator
        ELSE AddCheck(validator, ZCheck("min", 1, "", "required")))
  ELSE IF ~field.required /\ field.type # "checkbox" /\ field.type # "date"
       THEN Optional(validator)
       ELSE validator

FieldValidator(field) == RequiredHandling(field, TypeValidator(field))

FieldIds(fields) == {fields[i].id : i \in 1..Len(fields)}

\* schemaObject[field.id] = validator, in field order: the last field of an
\* id provides its validator
LastIndexOf(fields, id) ==
  CHOOSE i \in 1..Len(fields) :
    fields[i].id = id /\ \A j \in (i + 1)..Len(fields) : fields[j].id # id

createValidationSchema(fields) ==
  [id \in FieldIds(fields) |-> FieldValidator(fields[LastIndexOf(fields, id)])]

(***************************************************************************)
(* createZodSchema (DynamicFormRenderer.tsx), the per-field-advisory       *)
(* renderer's compiler.                                                    *)
(***************************************************************************)
ZodFieldSchema(field) ==
  LET val == field.validation
      typed ==
        CASE field.type = "email" ->
               AddCheck(ZodType("string", FALSE, ""), ZCheck("email", 0, "", "email"))
          [] field.type = "number" ->
               LET v0 == ZodType("number", TRUE, "")
                   v1 == IF TruthyNum(val.min)
                         THEN AddCheck(v0, ZCheck("min", ValueOf(val.min), "", "zod:too_small"))
                         ELSE v0
               IN IF TruthyNum(val.max)
                  THEN AddCheck(v1, ZCheck("max", ValueOf(val.max), "", "zod:too_big"))
                  ELSE v1
          [] field.type = "checkbox" -> ZodType("boolean", FALSE, "")
          [] OTHER ->
               LET v0 == ZodType("string", FALSE, "")
                   v1 == IF TruthyNum(val.min)
                         THEN AddCheck(v0, ZCheck("min", ValueOf(val.min), "", "minLength"))
                         ELSE v0
                   v2 == IF TruthyNum(val.max)
                         THEN AddCheck(v1, ZCheck("max", ValueOf(val.max), "", "maxLength"))
                         ELSE v1
               IN IF val.pattern # {}
                  THEN AddCheck(v2, ZCheck("regex", 0, ValueOf(val.pattern), "pattern"))
                  ELSE v2
  IN IF ~field.required THEN Optional(typed) ELSE typed

createZodSchema(fields) ==
  [id \in FieldIds(fields) |-> ZodFieldSchema(fields[LastIndexOf(fields, id)])]

(***************************************************************************)
(* zodResolver: parse the value map with the object schema; per field the  *)
(* first issue is the reported error ("" for none).                        *)
(***************************************************************************)
FirstMessage(issues) == IF issues = <<>> THEN "" ELSE issues[1]

Resolve(shape, data) ==
  [errors |-> [id \in DOMAIN shape |-> FirstMessage(ZodParse(shape[id], data[id]).issues)],
   values |-> [id \in DOMAIN shape |-> ZodParse(shape[id], data[id]).output]]

\* the object schema after the resolver ran on the value map
ShapeAfter(shape, data) == [id \in DOMAIN shape |-> ZodAfterParse(shape[id], data[id])]

FailingIds(errors) == {id \in DOMAIN errors : errors[id] # ""}

(***************************************************************************)
(* useAIValidation: the rule evaluation of validateWithAI.                 *)
(***************************************************************************)
\* field.id.toLowerCase().includes('name') / includes('age'), over the ids
\* of the schemas of the model
IdIncludesName(id) == id \in {"name", "firstName", "lastName"}
IdIncludesAge(id) == id \in {"age"}

Suggestion(id, rule, severity) == [field |-> id, suggestion |-> rule, severity |-> severity]

\* /^[a-zA-Z\s]+$/.test(value)
LettersAndSpaces(s) == s # <<>> /\ AllIn(s, Letters \cup Whitespace)

\* value.length of a string value
Length(v) == Len(v.s)

\* `value < 13 || value > 120`, the operand converted with ToNumber
AgeUnusual(v) == LET n == ToNumber(v) IN n.t = "number" /\ (n.n < 13 \/ n.n > 120)

\* /^[a-zA-Z\s]+$/.test(value): the value is converted to a string first; the
\* string of a number or of a date holds characters that are not letters
NameCharsOnly(v) ==
  CASE v.t = "string" -> LettersAndSpaces(v.s)
    [] v.t = "boolean" -> TRUE
    [] OTHER -> FALSE

\* variant of case 'email': the test of the separator is not negated
EmailSuggestionsInverted(field, value) ==
  IF Truthy(value) /\ Includes(value.s, "@")
  THEN <<Suggestion(field.id, "emailFormat", "error")>>
  ELSE <<>>

\* case 'email'
EmailSuggestions(field, value) ==
  IF Truthy(value) /\ ~Includes(value.s, "@")
  THEN <<Suggestion(field.id, "emailFormat", "error")>>
  ELSE <<>>

\* variant of case 'text': one finding for a name that is too short or has
\* other characters
NameSuggestionsMerged(field, value) ==
  IF IdIncludesName(field.id) /\ Truthy(value)
       /\ ((value.t = "string" /\ Length(value) < 2) \/ ~NameCharsOnly(value))
  THEN <<Suggestion(field.id, "nameSpecial", "warning")>>
  ELSE <<>>

\* case 'text'; value.length of a value that is not a string is undefined,
\* which is not below 2
NameSuggestions(field, value) ==
  IF IdIncludesName(field.id) /\ Truthy(value)
  THEN (IF value.t = "string" /\ Length(value) < 2
        THEN <<Suggestion(field.id, "nameShort", "warning")>> ELSE <<>>)
       \o (IF ~NameCharsOnly(value)
           THEN <<Suggestion(field.id, "nameSpecial", "warning")>> ELSE <<>>)
  ELSE <<>>

\* variant of case 'textarea': brief content is a warning
TextareaSuggestionsWarning(field, value) ==
  IF Truthy(value) /\ value.t = "string" /\ Length(value) > 0 /\ Length(value) < 10
  THEN <<Suggestion(field.id, "brief", "warning")>>
  ELSE <<>>

\* case 'textarea'
TextareaSuggestions(field, value) ==
  IF Truthy(value) /\ value.t = "string" /\ Length(value) > 0 /\ Length(value) < 10
  THEN <<Suggestion(field.id, "brief", "info")>>
  ELSE <<>>

\* case 'number'
NumberSuggestions(field, value) ==
  IF IdIncludesAge(field.id) /\ Truthy(value) /\ AgeUnusual(value)
  THEN <<Suggestion(field.id, "ageUnusual", "warning")>>
  ELSE <<>>

\* the findings pushed for one field, in order
FieldSuggestions(field, value) ==
  CASE field.type = "email" -> EmailSuggestions(field, value)
    [] field.type = "text" -> NameSuggestions(field, value)
    [] field.type = "textarea" -> TextareaSuggestions(field, value)
    [] field.type = "number" -> NumberSuggestions(field, value)
    [] OTHER -> <<>>

\* value.includes('@') of a truthy value that is not a string is a TypeError
\* (includes is not a function); no other rule can throw
FieldThrows(field, value) ==
  field.type = "email" /\ Truthy(value) /\ value.t # "string"

\* the forEach throws at the first such field; nothing was stored before
EvaluationThrows(formData, formFields) ==
  \E i \in 1..Len(formFields) : FieldThrows(formFields[i], formData[formFields[i].id])

\* formFields.forEach(...): validationResults
RECURSIVE ValidationResults(_, _)
ValidationResults(formData, formFields) ==
  IF formFields = <<>> THEN <<>>
  ELSE FieldSuggestions(Head(formFields), formData[Head(formFields).id])
       \o ValidationResults(formData, Tail(formFields))

\* variants of isValid: any finding blocks; nothing blocks
IsValidNoFindings(validationResults) == Len(validationResults) = 0
IsValidAlways(validationResults) == TRUE

\* validationResults.filter(s => s.severity === 'error').length === 0
IsValid(validationResults) ==
  Len(SelectSeq(validationResults, LAMBDA r : r.severity = "error")) = 0

\* Math.random() * 0.3 + 0.7, in percent: any value of the range
ConfidenceLevels == {70, 100}

AIValidationResponse(validationResults, confidence) ==
  [isValid |-> IsValid(validationResults), suggestions |-> validationResults,
   confidence |-> confidence]

(***************************************************************************)
(* The form session of DynamicFormRenderer with whole-form advisory        *)
(* evaluation (DynamicField.tsx).                                          *)
(***************************************************************************)
VARIABLES
  schema,               \* schema.fields, the prop of the renderer
  values,               \* the form values held by useForm
  formData,             \* watch() of the last render: [keys, vals]
  timers,               \* the pending setTimeout callbacks, oldest first
  isValidating,         \* useAIValidation state
  suggestions,          \* useAIValidation state
  aiValidationResults,  \* renderer state, set is FALSE for null
  isSubmitting,         \* renderer state
  errors,               \* formState.errors, "" for no error
  isSubmitted,          \* formState.isSubmitted
  onSubmitLog,          \* the value maps the host's onSubmit has received
  lastEvent,            \* the event handled last, and the value map it was requested for
  probe                 \* input and outcome of a single validator run

vars == <<schema, values, formData, timers, isValidating, suggestions,
          aiValidationResults, isSubmitting, errors, isSubmitted, onSubmitLog,
          lastEvent, probe>>

\* the schemas rendered in the model: the contact form (one name field, the
\* email field) and a schema whose two fields share an id
ContactFields ==
  <<Field("name", "text", TRUE, [NoValidation EXCEPT !.minLength = {2}], <<>>),
    Field("email", "email", TRUE, NoValidation, <<>>)>>

SharedIdFields ==
  <<Field("contact", "email", FALSE, NoValidation, <<>>),
    Field("contact", "text", TRUE, NoValidation, <<>>)>>

\* the age and feedback fields of the survey form
SurveyFields ==
  <<Field("age", "number", FALSE, [NoValidation EXCEPT !.min = {13}, !.max = {120}], <<>>),
    Field("feedback", "textarea", FALSE, [NoValidation EXCEPT !.maxLength = {500}], <<>>)>>

\* a schema whose two fields share an id, the second one a number field: the
\* parsed value of the id is a number
MixedIdFields ==
  <<Field("contact", "email", FALSE, NoValidation, <<>>),
    Field("contact", "number", FALSE, NoValidation, <<>>)>>

\* one textarea field without constraints; one required name field without
\* constraints
NotesFields == <<Field("notes", "textarea", FALSE, NoValidation, <<>>)>>
NameFields == <<Field("name", "text", TRUE, NoValidation, <<>>)>>

Schemas == {ContactFields, SharedIdFields, SurveyFields, MixedIdFields, NotesFields, NameFields}

\* what the user can type into a field
NameInputs == {<<>>, <<"j">>, <<"0">>, <<"j", "o">>, <<"j", "0">>}
EmailInputs == {<<>>, <<"b", "o", "b">>, <<"a", "@", "b", ".", "c", "c">>}
AgeInputs == {<<>>, <<"5", "0">>, <<"2", "0", "0">>}
FeedbackInputs == {<<>>, <<"h", "i">>}

InputValues(field) ==
  CASE field.type = "email" -> {Str(s) : s \in EmailInputs}
    [] field.type = "text" -> {Str(s) : s \in NameInputs}
    [] field.type = "textarea" -> {Str(s) : s \in FeedbackInputs}
    [] field.type = "number" -> {Str(s) : s \in AgeInputs}
    [] field.type = "checkbox" -> {Bool(TRUE), Bool(FALSE)}
    [] OTHER -> {Str(<<"x">>)}

\* the value of an untouched field: "" for a registered input, undefined
\* for a Controller
DefaultValue(field) ==
  IF field.type \in {"select", "checkbox", "date"} THEN Undef ELSE Str(<<>>)

DefaultValues(fields) ==
  [id \in FieldIds(fields) |-> DefaultValue(fields[LastIndexOf(fields, id)])]

NoErrors(fields) == [id \in FieldIds(fields) |-> ""]

Timer(kind, caller, keys, data, src) ==
  [kind |-> kind, caller |-> caller, keys |-> keys, data |-> data, src |-> src]

NullResults == [set |-> FALSE, isValid |-> TRUE, suggestions |-> <<>>, confidence |-> 0]

Event(name, caller, src) == [name |-> name, caller |-> caller, src |-> src]

\* shape is the compiled validator object; rerun tells how the validator was
\* run a second time ("same" object or "recompiled"), rerunErrors its
\* outcome; responses are the responses of validateWithAI so far
NoProbe == [fields |-> <<>>, data |-> <<>>, compiler |-> "", compiled |-> "",
            shape |-> <<>>, validated |-> FALSE, errors |-> <<>>,
            rerun |-> "", rerunErrors |-> <<>>, responses |-> <<>>]

\* the effect of a render: clearTimeout of the previous render's timer, then
\* setTimeout of a new one that closes over this render's formData.  formData
\* is the object watch() builds anew on every render, so the dependency list
\* differs on every render and the effect runs after each of them.  All
\* timeouts of the renderer wait 1000 ms, so they fire oldest first.
Rearm(ts, fd) ==
  Append(SelectSeq(ts, LAMBDA t : t.kind # "debounce"),
         Timer("debounce", "effect", fd.keys, fd.vals, fd.vals))

Init ==
  /\ schema \in Schemas
  /\ values = DefaultValues(schema)
  /\ formData = [keys |-> FALSE, vals |-> DefaultValues(schema)]
  /\ timers = Rearm(<<>>, formData)
  /\ isValidating = FALSE
  /\ suggestions = <<>>
  /\ aiValidationResults = NullResults
  /\ isSubmitting = FALSE
  /\ errors = NoErrors(schema)
  /\ isSubmitted = FALSE
  /\ onSubmitLog = {}
  /\ lastEvent = Event("mount", "", DefaultValues(schema))
  /\ probe = NoProbe

\* the user edits a field: the value changes, a field of a form that was
\* submitted before is re-validated (reValidateMode onChange), and the
\* renderer renders again
ChangeValue(i, v) ==
  LET id == schema[i].id
      shape == createValidationSchema(schema)
  IN
  /\ v # values[id]
  /\ values' = [values EXCEPT ![id] = v]
  /\ errors' = IF isSubmitted
               THEN [errors EXCEPT ![id] = FirstMessage(ZodParse(shape[id], v).issues)]
               ELSE errors
  /\ formData' = [keys |-> TRUE, vals |-> values']
  /\ timers' = Rearm(timers, formData')
  /\ lastEvent' = Event("change", "", values')
  /\ UNCHANGED <<schema, isValidating, suggestions, aiValidationResults, isSubmitting,
                 isSubmitted, onSubmitLog, probe>>

\* the debounce timer fires: with a non-empty formData validateWithAI is
\* called, which sets isValidating and starts its 1000 ms wait
DebounceFire ==
  /\ timers # <<>>
  /\ Head(timers).kind = "debounce"
  /\ LET t == Head(timers) IN
     IF t.keys
     THEN /\ isValidating' = TRUE
          /\ timers' = IF isValidating
                       THEN Append(Tail(timers), Timer("eval", "effect", TRUE, t.data, t.src))
                       ELSE Rearm(Append(Tail(timers),
                                         Timer("eval", "effect", TRUE, t.data, t.src)),
                                  formData)
          /\ lastEvent' = Event("debounce", t.caller, t.src)
     ELSE /\ timers' = Tail(timers)
          /\ lastEvent' = Event("debounce", t.caller, t.src)
          /\ UNCHANGED isValidating
  /\ UNCHANGED <<schema, values, formData, suggestions, aiValidationResults, isSubmitting,
                 errors, isSubmitted, onSubmitLog, probe>>

\* variant of the commit that adds the findings to the ones held
SetSuggestionsAppending(previous, validationResults) == previous \o validationResults

\* setSuggestions(validationResults): the list held is replaced as a whole
SetSuggestions(previous, validationResults) == validationResults

\* the wait of validateWithAI ends.  When the rule evaluation completes, the
\* results are stored, isValidating is cleared, and the caller continues: the
\* effect stores the response; the submit handler rejects, or starts the
\* simulated API call.  When the rule evaluation throws, validateWithAI
\* rejects before setSuggestions and setIsValidating(false) and the caller's
\* remaining statements do not run (neither has a try block); handleSubmit
\* then marks the form submitted and rethrows.
EvalFire(confidence) ==
  /\ timers # <<>>
  /\ Head(timers).kind = "eval"
  /\ LET t == Head(timers) IN
     IF EvaluationThrows(t.data, schema)
     THEN /\ lastEvent' = Event("evalFailed", t.caller, t.src)
          /\ IF t.caller = "effect"
             THEN /\ timers' = Tail(timers)
                  /\ UNCHANGED isSubmitted
             ELSE /\ timers' = Rearm(Tail(timers), formData)
                  /\ isSubmitted' = TRUE
          /\ UNCHANGED <<suggestions, isValidating, aiValidationResults, isSubmitting>>
     ELSE LET validationResults == ValidationResults(t.data, schema)
              response == AIValidationResponse(validationResults, confidence)
          IN
          /\ suggestions' = SetSuggestions(suggestions, validationResults)
          /\ isValidating' = FALSE
          /\ lastEvent' = Event("evalDone", t.caller, t.src)
          /\ IF t.caller = "effect"
             THEN /\ aiValidationResults' = [set |-> TRUE, isValid |-> response.isValid,
                                             suggestions |-> response.suggestions,
                                             confidence |-> response.confidence]
                  /\ timers' = Rearm(Tail(timers), formData)
                  /\ UNCHANGED <<isSubmitting, isSubmitted>>
             ELSE IF ~response.isValid
             THEN /\ isSubmitting' = FALSE
                  /\ isSubmitted' = TRUE
                  /\ timers' = Rearm(Tail(timers), formData)
                  /\ UNCHANGED aiValidationResults
             ELSE /\ timers' = Rearm(Append(Tail(timers),
                                            Timer("api", "submit", TRUE, t.data, t.src)),
                                     formData)
                  /\ UNCHANGED <<aiValidationResults, isSubmitting, isSubmitted>>
  /\ UNCHANGED <<schema, values, formData, errors, onSubmitLog, probe>>

\* variant of the handler that does not call the host
onSubmitNotCalled(received, data) == received

\* onSubmit(data): the host receives the submitted data
onSubmit(received, data) == received \cup {data}

\* what a call of the host's onSubmit can do
HostOutcomes == {"returns", "throws"}

\* the simulated API call ends: onSubmit(data), reset(), setIsSubmitting(false).
\* When onSubmit throws, handleFormSubmit rejects at that statement (it has
\* no try block): reset() and setIsSubmitting(false) do not run, and
\* handleSubmit marks the form submitted and rethrows.
ApiFire(outcome) ==
  /\ timers # <<>>
  /\ Head(timers).kind = "api"
  /\ LET t == Head(timers) IN
     /\ onSubmitLog' = onSubmit(onSubmitLog, t.data)
     /\ isSubmitted' = TRUE
     /\ IF outcome = "returns"
        THEN /\ values' = DefaultValues(schema)
             /\ errors' = NoErrors(schema)
             /\ isSubmitting' = FALSE
             /\ formData' = [keys |-> FALSE, vals |-> DefaultValues(schema)]
             /\ timers' = Rearm(Tail(timers), formData')
             /\ lastEvent' = Event("apiDone", t.caller, t.src)
        ELSE /\ timers' = Rearm(Tail(timers), formData)
             /\ lastEvent' = Event("apiFailed", t.caller, t.src)
             /\ UNCHANGED <<values, errors, isSubmitting, formData>>
  /\ UNCHANGED <<schema, isValidating, suggestions, aiValidationResults, probe>>

\* variant of handleSubmit that calls onValid whatever the resolver reports
SubmitOutcomeUnchecked(resolved) == "onValid"

\* handleSubmit: onValid is called only when the resolver reports no error
SubmitOutcome(resolved) ==
  IF FailingIds(resolved.errors) # {} THEN "onInvalid" ELSE "onValid"

\* variant of the button that is disabled during an evaluation only
SubmitDisabledWhileValidating(submitting, validating) == validating

\* disabled={isSubmitting || isValidating} of the submit button
SubmitDisabled(submitting, validating) == submitting \/ validating

\* the user submits the form (the button is enabled): handleSubmit runs the
\* resolver; with errors it reports them, without it calls handleFormSubmit
\* with the parsed values
Submit ==
  /\ ~SubmitDisabled(isSubmitting, isValidating)
  /\ LET resolved == Resolve(createValidationSchema(schema), values) IN
     IF SubmitOutcome(resolved) = "onInvalid"
     THEN /\ errors' = resolved.errors
          /\ isSubmitted' = TRUE
          /\ timers' = Rearm(timers, formData)
          /\ UNCHANGED <<isSubmitting, isValidating>>
     ELSE /\ errors' = resolved.errors
          /\ isSubmitting' = TRUE
          /\ isValidating' = TRUE
          /\ timers' = Rearm(Append(timers, Timer("eval", "submit", TRUE, resolved.values, values)),
                             formData)
          /\ UNCHANGED isSubmitted
  /\ lastEvent' = Event("submit", "", values)
  /\ UNCHANGED <<schema, values, formData, suggestions, aiValidationResults, onSubmitLog,
                 probe>>

Next ==
  \/ \E i \in 1..Len(schema) : \E v \in InputValues(schema[i]) : ChangeValue(i, v)
  \/ DebounceFire
  \/ \E confidence \in ConfidenceLevels : EvalFire(confidence)
  \/ \E outcome \in HostOutcomes : ApiFire(outcome)
  \/ Submit

Spec == Init /\ [][Next]_vars

(***************************************************************************)
(* The validator compilers on their own: a schema and a value map are      *)
(* drawn, the schema is compiled by one of the two compilers, and the      *)
(* compiled validator is run on the value map.                             *)
(***************************************************************************)
Opt(set) == {{}} \cup {{x} : x \in set}

\* the strings over ProbeChars of length at most MaxLen, and some longer ones
ProbeChars == {"a", " ", "1", "@"}
ProbeStrings ==
  UNION {[1..n -> ProbeChars] : n \in 0..MaxLen}
    \cup {<<"b", "o", "b">>, <<"a", "@", "b", ".", "c", "c">>, <<"a", "@", "b">>}

\* decimal numeral of a small integer
NumStr(n) ==
  IF n < 0 THEN <<"-", DigitSeq[1 - n]>>
  ELSE IF n < 10 THEN <<DigitSeq[n + 1]>>
  ELSE <<DigitSeq[(n \div 10) + 1], DigitSeq[(n % 10) + 1]>>

ProbeNumbers ==
  {Str(NumStr(n)) : n \in (0 - 2)..(MaxBound + 1)}
    \cup {Str(<<>>), Str(<<" ">>), Str(<<"a">>), Undef}

DateValue(valid) == [t |-> "date", s |-> <<>>, n |-> IF valid THEN 1 ELSE 0]

ProbeValues(field) ==
  CASE field.type = "number" -> ProbeNumbers
    [] field.type = "checkbox" -> {Undef, Bool(TRUE), Bool(FALSE)}
    [] field.type = "date" -> {Undef, DateValue(TRUE), DateValue(FALSE)}
    [] field.type \in {"select", "radio"} -> {Undef, Str(<<>>), Str(<<"x">>)}
    [] OTHER -> {Str(s) : s \in ProbeStrings} \cup {Undef}

TextValidations ==
  {[NoValidation EXCEPT !.minLength = mn, !.maxLength = mx, !.pattern = pt] :
     mn \in Opt(0..MaxConstraint), mx \in Opt(0..MaxConstraint), pt \in Opt(Patterns)}

\* the FormField of createZodSchema has validation.min / max only, read as
\* the length bounds of a string field and as the bounds of a number field
LengthAsMinMax(field) ==
  IF field.type = "number" THEN field
  ELSE [field EXCEPT !.validation.min = field.validation.minLength,
                     !.validation.max = field.validation.maxLength]

NumberValidations ==
  {[NoValidation EXCEPT !.min = mn, !.max = mx] :
     mn \in Opt((0 - 1)..MaxBound), mx \in Opt((0 - 1)..MaxBound)}

ProbeFields ==
  {Field("f", "text", r, val, <<>>) : r \in BOOLEAN, val \in TextValidations}
    \cup {Field("f", "email", r, NoValidation, <<>>) : r \in BOOLEAN}
    \cup {Field("f", "number", r, val, <<>>) : r \in BOOLEAN, val \in NumberValidations}
    \cup {Field("f", ty, r, NoValidation, <<>>) : ty \in {"checkbox", "date"}, r \in BOOLEAN}

\* fields of the two-field schemas: ids may coincide, a choice field may
\* have no options
PairFields ==
  {Field(id, "text", TRUE, NoValidation, <<>>) : id \in {"a", "b"}}
    \cup {Field(id, ty, TRUE, NoValidation, opts) :
            id \in {"a", "b"}, ty \in {"select", "radio"}, opts \in {<<>>, <<"x">>}}

ProbeSchemas ==
  {<<f>> : f \in ProbeFields} \cup {<<f, g>> : f \in PairFields, g \in PairFields}

ProbeData(fields) ==
  IF Len(fields) = 1
  THEN {[id \in FieldIds(fields) |-> v] : v \in ProbeValues(fields[1])}
  ELSE [FieldIds(fields) -> {Undef, Str(<<"x">>)}]

InitCompiler ==
  /\ schema = ContactFields
  /\ values = DefaultValues(schema)
  /\ formData = [keys |-> FALSE, vals |-> DefaultValues(schema)]
  /\ timers = <<>>
  /\ isValidating = FALSE
  /\ suggestions = <<>>
  /\ aiValidationResults = NullResults
  /\ isSubmitting = FALSE
  /\ errors = NoErrors(schema)
  /\ isSubmitted = FALSE
  /\ onSubmitLog = {}
  /\ lastEvent = Event("mount", "", DefaultValues(schema))
  /\ \E fields \in ProbeSchemas : \E data \in ProbeData(fields) :
       probe = [NoProbe EXCEPT !.fields = fields, !.data = data]

\* the field list as the named compiler reads it
CompilerFields(compiler, fields) ==
  IF compiler = "createZodSchema"
  THEN [i \in 1..Len(fields) |-> LengthAsMinMax(fields[i])]
  ELSE fields

Shape(compiler, fields) ==
  IF compiler = "createZodSchema"
  THEN createZodSchema(CompilerFields(compiler, fields))
  ELSE createValidationSchema(fields)

\* neither compiler has a failing path: each returns z.object(schemaObject)
CompileOutcome(compiler, fields) == "ok"

Compile(compiler) ==
  /\ probe.compiler = ""
  /\ probe' = [probe EXCEPT !.compiler = compiler,
                            !.compiled = CompileOutcome(compiler, probe.fields),
                            !.shape = Shape(compiler, probe.fields)]
  /\ UNCHANGED <<schema, values, formData, timers, isValidating, suggestions,
                 aiValidationResults, isSubmitting, errors, isSubmitted, onSubmitLog,
                 lastEvent>>

\* the resolver runs the compiled validator on the value map
Validate ==
  /\ probe.compiled = "ok"
  /\ ~probe.validated
  /\ probe' = [probe EXCEPT !.validated = TRUE,
                            !.errors = Resolve(probe.shape, probe.data).errors,
                            !.shape = ShapeAfter(probe.shape, probe.data)]
  /\ UNCHANGED <<schema, values, formData, timers, isValidating, suggestions,
                 aiValidationResults, isSubmitting, errors, isSubmitted, onSubmitLog,
                 lastEvent>>

\* the resolver runs again on the unchanged value map: with the validator
\* object of the first run, or (the renderer compiles on every render) with
\* a validator compiled anew from the same schema
ValidateAgain(how) ==
  /\ probe.validated
  /\ probe.rerun = ""
  /\ probe.responses = <<>>
  /\ LET shape == IF how = "recompiled" THEN Shape(probe.compiler, probe.fields)
                  ELSE probe.shape
     IN probe' = [probe EXCEPT !.rerun = how,
                               !.rerunErrors = Resolve(shape, probe.data).errors,
                               !.shape = ShapeAfter(shape, probe.data)]
  /\ UNCHANGED <<schema, values, formData, timers, isValidating, suggestions,
                 aiValidationResults, isSubmitting, errors, isSubmitted, onSubmitLog,
                 lastEvent>>

NextCompiler ==
  \/ \E compiler \in {"createValidationSchema", "createZodSchema"} : Compile(compiler)
  \/ Validate
  \/ \E how \in {"same", "recompiled"} : ValidateAgain(how)

SpecCompiler == InitCompiler /\ [][NextCompiler]_vars

(***************************************************************************)
(* The advisory rule evaluation on its own: a schema and a value map are   *)
(* drawn, the value map is validated, and validateWithAI is called on it,  *)
(* and called again with the same arguments.                               *)
(***************************************************************************)
TenChars == [i \in 1..10 |-> "a"]

AdvisoryStrings == ProbeStrings \cup {<<"J", "0", "h", "n">>, <<"j", "o">>, TenChars}

\* a number field's value is the raw input string (the effect's formData) or
\* the parsed number (the submit handler's data)
AdvisoryNumbers ==
  {Str(<<>>), Str(<<"5">>), Str(<<"1", "3">>), Str(<<"1", "2", "0">>), Str(<<"2", "0", "0">>),
   Num(0), Num(12), Num(13), Num(120), Num(121), Undef}

AdvisoryValues(field) ==
  IF field.type = "number" THEN AdvisoryNumbers
  ELSE {Str(s) : s \in AdvisoryStrings} \cup {Undef}

AdvisoryFields ==
  {Field("email", "email", r, NoValidation, <<>>) : r \in BOOLEAN}
    \cup {Field(id, "text", r, NoValidation, <<>>) : id \in {"name", "f"}, r \in BOOLEAN}
    \cup {Field("notes", "textarea", r, NoValidation, <<>>) : r \in BOOLEAN}
    \cup {Field(id, "number", FALSE, val, <<>>) :
            id \in {"age", "f"},
            val \in {NoValidation, [NoValidation EXCEPT !.min = {13}, !.max = {120}]}}

AdvisorySchemas == {<<f>> : f \in AdvisoryFields} \cup {ContactFields, MixedIdFields}

AdvisoryData(fields) ==
  IF Len(fields) = 1
  THEN {[id \in FieldIds(fields) |-> v] : v \in AdvisoryValues(fields[1])}
  ELSE [FieldIds(fields) -> {Str(<<>>), Str(<<"j">>), Str(<<"b", "o", "b">>), Num(5)}]

InitAdvisory ==
  /\ schema = ContactFields
  /\ values = DefaultValues(schema)
  /\ formData = [keys |-> FALSE, vals |-> DefaultValues(schema)]
  /\ timers = <<>>
  /\ isValidating = FALSE
  /\ suggestions = <<>>
  /\ aiValidationResults = NullResults
  /\ isSubmitting = FALSE
  /\ errors = NoErrors(schema)
  /\ isSubmitted = FALSE
  /\ onSubmitLog = {}
  /\ lastEvent = Event("mount", "", DefaultValues(schema))
  /\ \E fields \in AdvisorySchemas : \E data \in AdvisoryData(fields) :
       probe = [NoProbe EXCEPT !.fields = fields, !.data = data]

\* the outcome of one call of validateWithAI: the response it resolves to,
\* or the TypeError it rejects with
CallOutcome(data, formFields, confidence) ==
  IF EvaluationThrows(data, formFields)
  THEN [threw |-> TRUE, response |-> AIValidationResponse(<<>>, 0)]
  ELSE [threw |-> FALSE,
        response |-> AIValidationResponse(ValidationResults(data, formFields), confidence)]

\* validateWithAI(data, fields) is called and settles
Evaluate(confidence) ==
  /\ probe.validated
  /\ probe.rerun = ""
  /\ Len(probe.responses) < 2
  /\ probe' = [probe EXCEPT
                 !.responses = Append(@, CallOutcome(probe.data, probe.fields, confidence))]
  /\ UNCHANGED <<schema, values, formData, timers, isValidating, suggestions,
                 aiValidationResults, isSubmitting, errors, isSubmitted, onSubmitLog,
                 lastEvent>>

NextAdvisory ==
  \/ \E compiler \in {"createValidationSchema", "createZodSchema"} : Compile(compiler)
  \/ Validate
  \/ \E confidence \in ConfidenceLevels : Evaluate(confidence)

SpecAdvisory == InitAdvisory /\ [][NextAdvisory]_vars

(***************************************************************************)
(* The two advisory modes side by side.  A session runs in whole-form mode *)
(* (DynamicField.tsx: one debounced validateWithAI call for the value map) *)
(* or in per-field mode (DynamicFormRenderer.tsx: validateField per        *)
(* field).  useAIValidation.ts does not export the hook of the per-field   *)
(* mode (validateField, getFieldValidation, isFieldValidating); it follows *)
(* the per-field state machine of the specification: Idle, Debouncing,     *)
(* Pending, Resolved, with a completion committed only for the value       *)
(* requested last for its field.                                           *)
(***************************************************************************)
IdleField == [phase |-> "idle", requested |-> Undef, findings |-> <<>>]

ModeState(mode, fields) ==
  [mode |-> mode, fieldState |-> [id \in FieldIds(fields) |-> IdleField], inflight |-> {}]

ModeSchemas == {SurveyFields}

InitModes ==
  /\ schema \in ModeSchemas
  /\ values = DefaultValues(schema)
  /\ formData = [keys |-> FALSE, vals |-> DefaultValues(schema)]
  /\ isValidating = FALSE
  /\ suggestions = <<>>
  /\ aiValidationResults = NullResults
  /\ isSubmitting = FALSE
  /\ errors = NoErrors(schema)
  /\ isSubmitted = FALSE
  /\ onSubmitLog = {}
  /\ lastEvent = Event("mount", "", DefaultValues(schema))
  /\ \E mode \in {"form", "field"} :
       /\ probe = ModeState(mode, schema)
       /\ timers = IF mode = "form" THEN Rearm(<<>>, formData) ELSE <<>>

\* validateField(fieldId, value): a value other than the one requested last
\* for the field starts the field's debounce window anew
validateField(fieldState, fieldId, value) ==
  IF fieldState[fieldId].phase # "idle" /\ fieldState[fieldId].requested = value
  THEN fieldState
  ELSE [fieldState EXCEPT ![fieldId].phase = "debouncing", ![fieldId].requested = value]

\* Object.entries(watchedValues).forEach: validateField for every value that
\* is a non-empty string
RECURSIVE FieldEffect(_, _, _)
FieldEffect(fieldState, watchedValues, fields) ==
  IF fields = <<>> THEN fieldState
  ELSE LET fieldId == Head(fields).id
           value == watchedValues[fieldId]
       IN FieldEffect(IF Truthy(value) /\ value.t = "string"
                      THEN validateField(fieldState, fieldId, value)
                      ELSE fieldState,
                      watchedValues, Tail(fields))

\* the user edits a field in per-field mode: the renderer renders again and
\* the effect runs
FieldChange(i, v) ==
  LET id == schema[i].id IN
  /\ probe.mode = "field"
  /\ v # values[id]
  /\ values' = [values EXCEPT ![id] = v]
  /\ formData' = [keys |-> TRUE, vals |-> values']
  /\ probe' = [probe EXCEPT !.fieldState = FieldEffect(@, values', schema)]
  /\ lastEvent' = Event("change", id, values')
  /\ UNCHANGED <<schema, timers, isValidating, suggestions, aiValidationResults,
                 isSubmitting, errors, isSubmitted, onSubmitLog>>

\* the debounce window of a field ends: its evaluation is issued
FieldDebounceFire(id) ==
  /\ probe.mode = "field"
  /\ probe.fieldState[id].phase = "debouncing"
  /\ probe' = [probe EXCEPT
                 !.fieldState[id].phase = "pending",
                 !.inflight = @ \cup {[id |-> id, value |-> probe.fieldState[id].requested]}]
  /\ lastEvent' = Event("fieldDebounce", id, values)
  /\ UNCHANGED <<schema, values, formData, timers, isValidating, suggestions,
                 aiValidationResults, isSubmitting, errors, isSubmitted, onSubmitLog>>

\* the evaluation of a field completes, in any order: it is committed when
\* its value is the one requested last for the field, discarded otherwise;
\* the renderer renders again and the effect runs
FieldComplete(e) ==
  /\ probe.mode = "field"
  /\ e \in probe.inflight
  /\ LET st == probe.fieldState[e.id]
         field == schema[CHOOSE i \in 1..Len(schema) : schema[i].id = e.id]
         current == st.phase = "pending" /\ st.requested = e.value
         committed == IF current
                      THEN [probe.fieldState EXCEPT
                              ![e.id].phase = "resolved",
                              ![e.id].findings = FieldSuggestions(field, e.value)]
                      ELSE probe.fieldState
     IN /\ probe' = [probe EXCEPT !.fieldState = FieldEffect(committed, values, schema),
                                  !.inflight = @ \ {e}]
        /\ lastEvent' = Event(IF current THEN "fieldDone" ELSE "fieldDiscarded", e.id, values)
  /\ UNCHANGED <<schema, values, formData, timers, isValidating, suggestions,
                 aiValidationResults, isSubmitting, errors, isSubmitted, onSubmitLog>>

NextModes ==
  \/ /\ probe.mode = "form"
     /\ \E i \in 1..Len(schema) : \E v \in InputValues(schema[i]) : ChangeValue(i, v)
  \/ probe.mode = "form" /\ DebounceFire
  \/ /\ probe.mode = "form"
     /\ \E confidence \in ConfidenceLevels : EvalFire(confidence)
  \/ \E i \in 1..Len(schema) : \E v \in InputValues(schema[i]) : FieldChange(i, v)
  \/ \E id \in FieldIds(schema) : FieldDebounceFire(id)
  \/ \E e \in probe.inflight : FieldComplete(e)

SpecModes == InitModes /\ [][NextModes]_vars

(***************************************************************************)
(* The form builder (SmartFormBuilder.tsx).  The builder's state is held   *)
(* in probe: the field list, the title, the isGenerating flag, the         *)
(* generateAIField call in flight with the field list its closure          *)
(* captured, the clock read by Date.now(), and the field list handed to    *)
(* onFormGenerated.                                                        *)
(***************************************************************************)
MaxFields == 3
MaxClock == 2

\* `field_${Date.now()}` and `ai_field_${Date.now()}`
FieldId(prefix, now) == <<prefix, now>>

NewField(now) ==
  [id |-> FieldId("field", now), type |-> "text", label |-> "New Field", required |-> FALSE]

\* generateFieldSuggestion('text', 'personal_info'), resolved at time now
SuggestedField(now) ==
  [id |-> FieldId("ai_field", now), type |-> "text", label |-> "Full Name", required |-> TRUE]

\* the updates the field editor can make (the label input)
FieldUpdates == {"Renamed"}

\* the field ids of the shipped template schemas
TemplateIds ==
  {<<"firstName", "lastName", "email">>,
   <<"name", "email", "age", "experience", "birthDate", "feedback", "newsletter">>,
   <<"fullName", "email", "phone", "position", "experience", "startDate", "coverLetter",
     "terms">>}

NoCall == [active |-> FALSE, fields |-> <<>>, startedAt |-> 0]

InitBuilder ==
  /\ schema = ContactFields
  /\ values = DefaultValues(schema)
  /\ formData = [keys |-> FALSE, vals |-> DefaultValues(schema)]
  /\ timers = <<>>
  /\ isValidating = FALSE
  /\ suggestions = <<>>
  /\ aiValidationResults = NullResults
  /\ isSubmitting = FALSE
  /\ errors = NoErrors(schema)
  /\ isSubmitted = FALSE
  /\ onSubmitLog = {}
  /\ lastEvent = Event("mount", "", DefaultValues(schema))
  /\ probe = [fields |-> <<>>, formTitle |-> <<>>, isGenerating |-> FALSE, call |-> NoCall,
              now |-> 0, generated |-> <<>>, mode |-> "builder", lastOp |-> "mount"]

\* time passes
Tick ==
  /\ probe.now < MaxClock
  /\ probe' = [probe EXCEPT !.now = @ + 1, !.lastOp = "tick"]
  /\ UNCHANGED <<schema, values, formData, timers, isValidating, suggestions,
                 aiValidationResults, isSubmitting, errors, isSubmitted, onSubmitLog,
                 lastEvent>>

setFormTitle(title) ==
  /\ probe.mode = "builder"
  /\ probe.formTitle # title
  /\ probe' = [probe EXCEPT !.formTitle = title, !.lastOp = "setFormTitle"]
  /\ UNCHANGED <<schema, values, formData, timers, isValidating, suggestions,
                 aiValidationResults, isSubmitting, errors, isSubmitted, onSubmitLog,
                 lastEvent>>

addField ==
  /\ probe.mode = "builder"
  /\ Len(probe.fields) < MaxFields
  /\ probe' = [probe EXCEPT !.fields = Append(@, NewField(probe.now)), !.lastOp = "addField"]
  /\ UNCHANGED <<schema, values, formData, timers, isValidating, suggestions,
                 aiValidationResults, isSubmitting, errors, isSubmitted, onSubmitLog,
                 lastEvent>>

removeField(fieldId) ==
  /\ probe.mode = "builder"
  /\ probe' = [probe EXCEPT !.fields = SelectSeq(@, LAMBDA field : field.id # fieldId),
                            !.lastOp = "removeField"]
  /\ UNCHANGED <<schema, values, formData, timers, isValidating, suggestions,
                 aiValidationResults, isSubmitting, errors, isSubmitted, onSubmitLog,
                 lastEvent>>

updateField(fieldId, label) ==
  /\ probe.mode = "builder"
  /\ \E i \in 1..Len(probe.fields) :
       probe.fields[i].id = fieldId /\ probe.fields[i].label # label
  /\ probe' = [probe EXCEPT
                 !.fields = [i \in 1..Len(@) |->
                               IF @[i].id = fieldId THEN [@[i] EXCEPT !.label = label]
                               ELSE @[i]],
                 !.lastOp = "updateField"]
  /\ UNCHANGED <<schema, values, formData, timers, isValidating, suggestions,
                 aiValidationResults, isSubmitting, errors, isSubmitted, onSubmitLog,
                 lastEvent>>

\* the AI Suggest button (disabled while isGenerating): generateAIField runs
\* up to its await; the closure holds the field list of this render
generateAIField ==
  /\ probe.mode = "builder"
  /\ ~probe.isGenerating
  /\ Len(probe.fields) < MaxFields
  /\ probe' = [probe EXCEPT
                 !.isGenerating = TRUE,
                 !.call = [active |-> TRUE, fields |-> probe.fields, startedAt |-> probe.now],
                 !.lastOp = "generateAIField"]
  /\ UNCHANGED <<schema, values, formData, timers, isValidating, suggestions,
                 aiValidationResults, isSubmitting, errors, isSubmitted, onSubmitLog,
                 lastEvent>>

\* the suggestion arrives after its 500 ms wait:
\* setFields([...fields, suggestedField]) with the field list of the closure
SuggestionArrives ==
  /\ probe.mode = "builder"
  /\ probe.call.active
  /\ probe.now > probe.call.startedAt
  /\ probe' = [probe EXCEPT
                 !.fields = Append(probe.call.fields, SuggestedField(probe.now)),
                 !.isGenerating = FALSE,
                 !.call = NoCall,
                 !.lastOp = "suggestionArrived"]
  /\ UNCHANGED <<schema, values, formData, timers, isValidating, suggestions,
                 aiValidationResults, isSubmitting, errors, isSubmitted, onSubmitLog,
                 lastEvent>>

\* the Generate button (enabled with a title and at least one field):
\* onFormGenerated(schema), and the page shows the preview
generateForm ==
  /\ probe.mode = "builder"
  /\ Trim(probe.formTitle) # <<>>
  /\ Len(probe.fields) # 0
  /\ probe' = [probe EXCEPT !.generated = probe.fields, !.mode = "preview",
                            !.lastOp = "generateForm"]
  /\ UNCHANGED <<schema, values, formData, timers, isValidating, suggestions,
                 aiValidationResults, isSubmitting, errors, isSubmitted, onSubmitLog,
                 lastEvent>>

NextBuilder ==
  \/ Tick
  \/ \E title \in {<<>>, <<"t">>} : setFormTitle(title)
  \/ addField
  \/ \E i \in 1..Len(probe.fields) : removeField(probe.fields[i].id)
  \/ \E i \in 1..Len(probe.fields) : \E label \in FieldUpdates :
       updateField(probe.fields[i].id, label)
  \/ generateAIField
  \/ SuggestionArrives
  \/ generateForm

SpecBuilder == InitBuilder /\ [][NextBuilder]_vars

(***************************************************************************)
(* Properties of the form session (specification Spec).                    *)
(***************************************************************************)
CountKind(ts, kind) == Len(SelectSeq(ts, LAMBDA t : t.kind = kind))

HasError(validationResults) ==
  \E i \in 1..Len(validationResults) : validationResults[i].severity = "error"

StructuralErrors(vals) == Resolve(createValidationSchema(schema), vals).errors

StructurallyFailing(vals) == \E id \in FieldIds(schema) : StructuralErrors(vals)[id] # ""

\* C1: stale-result suppression.  When an advisory evaluation completes and
\* the value map it was requested for differs from the current value map,
\* the completion is discarded: the committed advisory outcome (suggestions,
\* aiValidationResults) is left as it was.
StaleCompletionDiscarded ==
  [][(lastEvent'.name = "evalDone" /\ lastEvent'.src # values)
       => (suggestions' = suggestions /\ aiValidationResults' = aiValidationResults)]_vars

\* C2: debounce.  At most one debounce timer is pending and it is for the
\* current values, and a burst of changes is evaluated exactly once: when the
\* effect's evaluation of the current values has completed, no timer is
\* pending that will evaluate these values again.
BurstEvaluatedOnce ==
  /\ CountKind(timers, "debounce") <= 1
  /\ \A i \in 1..Len(timers) :
       (timers[i].kind = "debounce" /\ timers[i].keys) => timers[i].data = values
  /\ (lastEvent.name = "evalDone" /\ lastEvent.caller = "effect" /\ lastEvent.src = values)
       => ~\E i \in 1..Len(timers) :
             timers[i].kind = "debounce" /\ timers[i].keys /\ timers[i].data = values

\* C3: a submit of values of which some field fails structural validation is
\* rejected: exactly the failing field ids get an error, no advisory
\* evaluation is started by it, the form is not submitting and onSubmit is
\* not called.
SubmitRejectsStructuralFailure ==
  [][(lastEvent'.name = "submit" /\ StructurallyFailing(values))
       => /\ \A id \in FieldIds(schema) :
               (errors'[id] # "") <=> (StructuralErrors(values)[id] # "")
          /\ CountKind(timers', "eval") = CountKind(timers, "eval")
          /\ isValidating' = isValidating
          /\ ~isSubmitting'
          /\ onSubmitLog' = onSubmitLog]_vars

\* witness of C3: a submit has just been rejected for a structural failure
StructuralRejectionReached ==
  /\ lastEvent.name = "submit"
  /\ StructurallyFailing(values)
  /\ FailingIds(errors) # {}
  /\ ~isSubmitting

\* C4: the decision of a submit whose values passed structural validation.
\* When its final advisory evaluation completes, the submission is rejected
\* (no longer submitting, no API call started) if and only if the evaluation
\* of the submitted values has a finding of severity error; with warning or
\* info findings only it proceeds to the API call.
AdvisoryDecision ==
  [][(lastEvent'.name = "evalDone" /\ lastEvent'.caller = "submit" /\ timers # <<>>)
       => IF HasError(ValidationResults(Head(timers).data, schema))
          THEN ~isSubmitting' /\ CountKind(timers', "api") = 0
          ELSE isSubmitting' /\ CountKind(timers', "api") = 1]_vars

\* witness of C4: the final evaluation of a submit found an error and the
\* submission was rejected
AdvisoryRejectionReached ==
  /\ lastEvent.name = "evalDone"
  /\ lastEvent.caller = "submit"
  /\ HasError(suggestions)
  /\ ~isSubmitting
  /\ ~StructurallyFailing(lastEvent.src)

\* the value maps a user can produce
ValueMaps(fields) ==
  [FieldIds(fields) -> UNION {InputValues(fields[i]) : i \in 1..Len(fields)}]

\* C5: every value map the host's onSubmit has received is the parsed form
\* of values that passed structural validation in every field, and its
\* advisory evaluation has no finding of severity error.
OnSubmitOnlyAccepted ==
  \A d \in onSubmitLog :
    /\ ~HasError(ValidationResults(d, schema))
    /\ \E src \in ValueMaps(schema) :
         /\ ~StructurallyFailing(src)
         /\ Resolve(createValidationSchema(schema), src).values = d

\* witness of C5: onSubmit has been called for an accepted submission
OnSubmitCalled ==
  /\ lastEvent.name = "apiDone"
  /\ onSubmitLog # {}
  /\ ~StructurallyFailing(lastEvent.src)

(***************************************************************************)
(* Properties of the compilers (specification SpecCompiler).               *)
(***************************************************************************)
ProbeField == probe.fields[1]
ProbeValue == probe.data[ProbeField.id]
ProbeMessage == probe.errors[ProbeField.id]
SingleFieldRun == probe.validated /\ Len(probe.fields) = 1

\* C6: for a required text field with any length and pattern constraints, an
\* empty or whitespace-only input fails with the required message.
RequiredBlankFailsAsRequired ==
  (/\ SingleFieldRun
   /\ probe.compiler = "createValidationSchema"
   /\ ProbeField.type = "text"
   /\ ProbeField.required
   /\ ProbeValue.t = "string"
   /\ Trim(ProbeValue.s) = <<>>)
    => ProbeMessage = "required"

\* the message of the first violated rule in the order required, type
\* format, minLength, maxLength, pattern ("" when no rule is violated)
FirstViolatedRule(field, v) ==
  LET val == field.validation IN
  IF field.required /\ Len(v.s) < 1 THEN "required"
  ELSE IF field.type = "email" /\ ~IsEmail(v.s) THEN "email"
  ELSE IF field.type # "email" /\ TruthyNum(val.minLength) /\ Len(v.s) < ValueOf(val.minLength)
       THEN "minLength"
  ELSE IF field.type # "email" /\ TruthyNum(val.maxLength) /\ Len(v.s) > ValueOf(val.maxLength)
       THEN "maxLength"
  ELSE IF field.type # "email" /\ val.pattern # {} /\ ~RegExpTest(ValueOf(val.pattern), v.s)
       THEN "pattern"
  ELSE ""

\* C7: first failure wins.  The one message reported for a text or email
\* field is that of the first violated rule in the order required, type
\* format, minLength, maxLength, pattern.
FirstFailureWins ==
  (/\ SingleFieldRun
   /\ probe.compiler = "createValidationSchema"
   /\ ProbeField.type \in {"text", "email"}
   /\ ProbeValue.t = "string")
    => ProbeMessage = FirstViolatedRule(ProbeField, ProbeValue)

HasDuplicateIds(fields) ==
  \E i, j \in 1..Len(fields) : i # j /\ fields[i].id = fields[j].id

HasEmptyOptions(fields) ==
  \E i \in 1..Len(fields) : fields[i].type \in {"select", "radio"} /\ fields[i].options = <<>>

\* C8: compiling rejects exactly the schemas with two fields of one id or
\* with a select / radio field without options.
CompileRejectsInvalidSchemas ==
  probe.compiled # ""
    => (probe.compiled = "SchemaError"
          <=> (HasDuplicateIds(probe.fields) \/ HasEmptyOptions(probe.fields)))

\* C9: for a number field, required or not, a non-blank input that does not
\* coerce to a number fails, and one that coerces to n passes exactly when n
\* is within the defined bounds, both inclusive, a bound of 0 included.
NumberBoundsInclusive ==
  (/\ SingleFieldRun
   /\ probe.compiler = "createValidationSchema"
   /\ ProbeField.type = "number"
   /\ ProbeValue.t = "string"
   /\ Trim(ProbeValue.s) # <<>>)
    => LET n == ToNumber(ProbeValue) IN
       IF n.t # "number" THEN ProbeMessage # ""
       ELSE (ProbeMessage = "")
              <=> (/\ \A m \in ProbeField.validation.min : m <= n.n
                   /\ \A m \in ProbeField.validation.max : n.n <= m)

\* C10: a checkbox field, required or not, passes structural validation for
\* every checkbox value, the unset value of a never-touched box included.
CheckboxNeverBlocks ==
  (SingleFieldRun /\ ProbeField.type = "checkbox") => ProbeMessage = ""

\* C11: a required date field passes exactly for a valid calendar date, and
\* a date field that is not required passes when no date is chosen.
DateRequiredOnly ==
  (/\ SingleFieldRun
   /\ probe.compiler = "createValidationSchema"
   /\ ProbeField.type = "date")
    => /\ ProbeField.required => ((ProbeMessage = "") <=> (ProbeValue = DateValue(TRUE)))
       /\ (~ProbeField.required /\ ProbeValue = Undef) => ProbeMessage = ""

\* an empty or blank value: unset, or a string of whitespace only
IsBlank(v) == v.t = "undefined" \/ (v.t = "string" /\ Trim(v.s) = <<>>)

\* C12: an empty or blank value never enters the pending state and produces
\* no findings: an advisory evaluation in flight was requested for some value
\* that is not blank, and evaluates to no finding for a field whose value is
\* blank; isValidating is set only while such an evaluation is in flight.
BlankNeverEvaluated ==
  /\ \A i \in 1..Len(timers) :
       timers[i].kind = "eval"
         => /\ \E id \in FieldIds(schema) : ~IsBlank(timers[i].data[id])
            /\ LET results == ValidationResults(timers[i].data, schema)
               IN \A k \in 1..Len(results) : ~IsBlank(timers[i].data[results[k].field])
  /\ isValidating => CountKind(timers, "eval") > 0

\* C14: the structural check runs on every value change, before the first
\* submit attempt too: after a value change the error shown for each field is
\* the outcome of the structural check on the field's current value.
StructuralErrorNeverStale ==
  lastEvent.name = "change"
    => \A id \in FieldIds(schema) : errors[id] = StructuralErrors(values)[id]

\* C15: a failing advisory evaluation is not fatal.  When validateWithAI
\* fails, the advisory state stays at its last resolved value, no new
\* evaluation is started for it, the form is no longer submitting, and
\* isValidating is cleared unless another evaluation is still in flight.
FailedEvaluationNotFatal ==
  [][(lastEvent'.name = "evalFailed" /\ timers # <<>>)
       => /\ suggestions' = suggestions
          /\ aiValidationResults' = aiValidationResults
          /\ CountKind(timers', "eval") = CountKind(timers, "eval") - 1
          /\ ~isSubmitting'
          /\ CountKind(timers', "eval") = 0 => ~isValidating']_vars

\* C16: structural validation is idempotent.  A second run of the validator
\* on the unchanged value map, with the validator object of the first run or
\* with one compiled anew from the same schema, reports for every field what
\* the first run reported.
ValidationIdempotent ==
  probe.rerun # "" => probe.rerunErrors = probe.errors

\* witness of C16: the validator object of a field with a pattern has run
\* twice on a string that matches the pattern
SameValidatorRanTwice ==
  /\ SingleFieldRun
  /\ probe.rerun = "same"
  /\ ProbeField.validation.pattern # {}
  /\ ProbeValue.t = "string"
  /\ ProbeValue.s # <<>>
  /\ ProbeMessage = ""
  /\ probe.rerunErrors[ProbeField.id] = ""

\* the ids of the number fields whose value in vals coerces to a number
\* above the field's max
AboveMaxIds(vals) ==
  {id \in FieldIds(schema) :
     LET field == schema[LastIndexOf(schema, id)]
         n == ToNumber(vals[id])
     IN /\ field.type = "number"
        /\ Defined(field.validation.max)
        /\ n.t = "number"
        /\ n.n > ValueOf(field.validation.max)}

\* C18 as stated: a value above the max of a number field fails the
\* structural check, and the advisory engine is never called for it: no
\* evaluation in flight was requested for a value map with such a value.
NoEvaluationAboveMax ==
  /\ \A id \in AboveMaxIds(values) : StructuralErrors(values)[id] # ""
  /\ \A i \in 1..Len(timers) : timers[i].kind = "eval" => AboveMaxIds(timers[i].src) = {}

\* C18, amended: a submit of a value above the max of a number field is
\* rejected with the max error for that field, and starts no advisory
\* evaluation.
AboveMaxRejectedAtSubmit ==
  [][(lastEvent'.name = "submit" /\ AboveMaxIds(values) # {})
       => /\ \A id \in AboveMaxIds(values) : errors'[id] = "zod:too_big"
          /\ CountKind(timers', "eval") = CountKind(timers, "eval")
          /\ isValidating' = isValidating
          /\ ~isSubmitting'
          /\ onSubmitLog' = onSubmitLog]_vars

\* witness of C18: a submit of an age above the max has been rejected
AboveMaxSubmitRejected ==
  /\ lastEvent.name = "submit"
  /\ AboveMaxIds(values) # {}
  /\ \A id \in AboveMaxIds(values) : errors[id] = "zod:too_big"
  /\ ~isSubmitting

\* the findings for a field id among the results
FindingsFor(validationResults, id) == SelectSeq(validationResults, LAMBDA r : r.field = id)

\* the ids of the textarea fields without a length constraint whose value in
\* vals is a string of length L, 0 < L < 10
BriefIds(vals) ==
  {id \in FieldIds(schema) :
     LET field == schema[LastIndexOf(schema, id)] IN
     /\ field.type = "textarea"
     /\ \A i \in 1..Len(schema) : schema[i].id = id => schema[i] = field
     /\ field.validation.minLength = {} /\ field.validation.maxLength = {}
     /\ vals[id].t = "string"
     /\ Len(vals[id].s) > 0 /\ Len(vals[id].s) < 10}

\* the final evaluation of a submit has just completed and lets it proceed
\* to the API call
SubmitProceeds ==
  /\ lastEvent'.name = "evalDone"
  /\ lastEvent'.caller = "submit"
  /\ isSubmitting'
  /\ CountKind(timers', "api") = 1

\* C19: a textarea field without a length constraint and with a value of
\* length L, 0 < L < 10, passes the structural check; the final evaluation of
\* a submit returns exactly one finding for it, of severity info; and the
\* finding does not block: unless the evaluation has a finding of severity
\* error, the submission proceeds.
BriefTextareaAccepted ==
  [][/\ \A id \in BriefIds(values') : StructuralErrors(values')[id] = ""
     /\ (lastEvent'.name = "evalDone" /\ lastEvent'.caller = "submit" /\ timers # <<>>)
          => /\ \A id \in BriefIds(Head(timers).data) :
                  /\ Len(FindingsFor(suggestions', id)) = 1
                  /\ FindingsFor(suggestions', id)[1].severity = "info"
             /\ (BriefIds(Head(timers).data) # {} /\ ~HasError(suggestions'))
                  => SubmitProceeds]_vars

\* witness of C19: onSubmit has received a brief textarea value
BriefTextareaSubmitted ==
  /\ lastEvent.name = "apiDone"
  /\ \E d \in onSubmitLog : BriefIds(d) # {}

\* the ids of the text fields whose id includes 'name' and whose value in
\* vals is a non-empty string
NamedIds(vals) ==
  {id \in FieldIds(schema) :
     /\ \A i \in 1..Len(schema) : schema[i].id = id => schema[i].type = "text"
     /\ IdIncludesName(id)
     /\ vals[id].t = "string"
     /\ vals[id].s # <<>>}

\* the ids among them whose field has no length or pattern constraint
PlainNamedIds(vals) ==
  {id \in NamedIds(vals) :
     LET val == schema[LastIndexOf(schema, id)].validation
     IN val.minLength = {} /\ val.maxLength = {} /\ val.pattern = {}}

EmptiedIds ==
  {id \in FieldIds(schema) : ~IsBlank(values[id]) /\ values'[id] = Str(<<>>)}

\* C21: changing a field's value to empty returns the field's advisory state
\* to idle and cancels the evaluation in flight.  After the change no finding
\* for the field is committed and no evaluation is in flight; and when an
\* evaluation completes that was requested while a field held a value that
\* is blank by now, the completion commits nothing.
EmptyingCancelsAdvisory ==
  [][/\ (lastEvent'.name = "change" /\ EmptiedIds # {})
          => /\ \A id \in EmptiedIds :
                  /\ FindingsFor(suggestions', id) = <<>>
                  /\ FindingsFor(aiValidationResults'.suggestions, id) = <<>>
             /\ CountKind(timers', "eval") = 0
             /\ ~isValidating'
     /\ (/\ lastEvent'.name = "evalDone"
         /\ \E id \in FieldIds(schema) : ~IsBlank(lastEvent'.src[id]) /\ IsBlank(values[id]))
          => (suggestions' = suggestions /\ aiValidationResults' = aiValidationResults)]_vars

\* C24: isValidating is true if and only if at least one validateWithAI call
\* is in flight; when two calls overlap it stays true until the last of them
\* completes.
ValidatingIffInFlight == isValidating <=> CountKind(timers, "eval") > 0

\* C25: quiescence.  The completion of an evaluation does not itself
\* schedule a new evaluation: when the effect's evaluation of the current
\* values completes, no debounce timer is left that will evaluate them
\* again.  And a session with no timer pending stays so until the user
\* changes a value or submits.
QuiescentAfterEditing ==
  [][/\ (lastEvent'.name = "evalDone" /\ lastEvent'.caller = "effect"
           /\ lastEvent'.src = values')
          => \A i \in 1..Len(timers') : timers'[i].kind = "debounce" => ~timers'[i].keys
     /\ (timers = <<>> /\ timers' # <<>>) => lastEvent'.name \in {"change", "submit"}]_vars

\* C26: every submit attempt that sets isSubmitting sets it back, whether
\* the submission is accepted, rejected by the advisory evaluation, or the
\* host's onSubmit fails.  isSubmitting is set back only by the handler's own
\* run, so it is true only while that run is in progress: its evaluation or
\* its API call is pending.
SubmittingOnlyWhileInProgress ==
  isSubmitting => \E i \in 1..Len(timers) : timers[i].caller = "submit"

\* the timers of the handleFormSubmit run in progress: its evaluation, or
\* its API call
SubmitTimers == SelectSeq(timers, LAMBDA t : t.caller = "submit")

\* C27: at most one submission is in flight at any time: a handleFormSubmit
\* run is in progress only while isSubmitting is set, and there is at most
\* one; so onSubmit is called at most once for an accepted submit.
AtMostOneSubmission == Len(SubmitTimers) <= (IF isSubmitting THEN 1 ELSE 0)

\* witness of C27: after an accepted submission a second one has been
\* accepted and its API call is pending
SecondSubmissionInFlight ==
  /\ onSubmitLog # {}
  /\ isSubmitting
  /\ CountKind(timers, "api") = 1

\* C29: a field with required = false that the user leaves empty (the empty
\* string of an untouched input, undefined for an untouched select) never
\* fails structural validation, whatever its type and its length, pattern
\* and numeric constraints.
EmptyOptionalNeverFails ==
  (SingleFieldRun /\ ~ProbeField.required /\ ProbeValue = DefaultValue(ProbeField))
    => ProbeMessage = ""

\* C30: a submission rejected by the advisory evaluation leaves the form
\* values unchanged, without a reset and without a call of onSubmit; and the
\* form values are reset only when an accepted submission ends, after
\* onSubmit has received the submitted data: any other step that changes a
\* value is an edit by the user.
ResetOnlyAfterAcceptedSubmit ==
  [][/\ (lastEvent'.name = "evalDone" /\ lastEvent'.caller = "submit" /\ ~isSubmitting')
          => /\ values' = values
             /\ onSubmitLog' = onSubmitLog
             /\ CountKind(timers', "api") = 0
     /\ (values' # values /\ lastEvent'.name # "change")
          => /\ lastEvent'.name = "apiDone"
             /\ timers # <<>>
             /\ Head(timers).kind = "api"
             /\ Head(timers).data \in onSubmitLog'
             /\ values' = DefaultValues(schema)]_vars

\* witness of C30: a submission of edited values has just been rejected by
\* the advisory evaluation, and the values are still in the form
RejectedValuesKept ==
  /\ lastEvent.name = "evalDone"
  /\ lastEvent.caller = "submit"
  /\ ~isSubmitting
  /\ HasError(suggestions)
  /\ values # DefaultValues(schema)
  /\ values = lastEvent.src

(***************************************************************************)
(* Properties of the two advisory modes (specification SpecModes).         *)
(***************************************************************************)
\* the findings the rules give for one field when its value is evaluated on
\* its own, every other field being empty
OwnFindings(id, data) ==
  FindingsFor(ValidationResults([k \in DOMAIN data |-> IF k = id THEN data[k] ELSE Str(<<>>)],
                                schema), id)

UniqueIds(ids) == \A i, j \in 1..Len(ids) : i # j => ids[i] # ids[j]

\* C23: field ids are unique within every schema: the field list handed to
\* onFormGenerated has no two fields with the same id, and no shipped
\* template has.
GeneratedIdsUnique ==
  /\ UniqueIds([i \in 1..Len(probe.generated) |-> probe.generated[i].id])
  /\ \A ids \in TemplateIds : UniqueIds(ids)

\* C28: no builder edit is lost to a suggestion in flight: when the
\* suggestion arrives, the field list is the current one (with every field
\* added, removed or updated during the wait) followed by the suggested
\* field.
NoEditLostToSuggestion ==
  [][probe'.lastOp = "suggestionArrived"
       => /\ Len(probe'.fields) = Len(probe.fields) + 1
          /\ SubSeq(probe'.fields, 1, Len(probe.fields)) = probe.fields]_vars

(***************************************************************************)
(* Properties of the advisory rule evaluation (specification SpecAdvisory).*)
(***************************************************************************)
\* C13: two calls of validateWithAI with identical form data and identical
\* field lists return identical results: the same findings in the same order
\* and the same confidence.
EvaluationDeterministic ==
  Len(probe.responses) = 2 => probe.responses[1] = probe.responses[2]

\* the findings of severity error for a field id
ErrorFindings(validationResults, id) ==
  SelectSeq(validationResults, LAMBDA r : r.field = id /\ r.severity = "error")

\* C17: for a required email field, a value that is not a valid address
\* fails structurally with the valid-email message, and a value that passes
\* the structural check gets no finding of severity error from the advisory
\* evaluation.
RequiredEmailScenario ==
  (/\ SingleFieldRun
   /\ ProbeField.type = "email"
   /\ ProbeField.required
   /\ ProbeValue.t = "string")
    => /\ ~IsEmail(ProbeValue.s) => ProbeMessage = "email"
       /\ ProbeMessage = ""
            => \A k \in 1..Len(probe.responses) :
                 /\ ~probe.responses[k].threw
                 /\ ErrorFindings(probe.responses[k].response.suggestions, ProbeField.id) = <<>>

\* witness of C17: an address passed the structural check of a required
\* email field and was evaluated by the advisory rules
ValidAddressEvaluated ==
  /\ SingleFieldRun
  /\ ProbeField.type = "email"
  /\ ProbeField.required
  /\ ProbeValue.t = "string"
  /\ IsEmail(ProbeValue.s)
  /\ ProbeMessage = ""
  /\ Len(probe.responses) > 0

====
